---- MODULE Spec2Model ----
(***************************************************************************)
(* A model of color-readelf (src/main.go): one run of main over one ELF    *)
(* file.  The file is a sequence of bytes; the os.File is its read offset  *)
(* and the log of the Seek and binary.Read calls made on it.  Every error  *)
(* value the code drops (file.Seek, binary.Read in the table readers) is   *)
(* dropped here too, and every Go run-time panic the code can raise (index *)
(* out of range, slice bounds out of range, makeslice) is an outcome.      *)
(***************************************************************************)
EXTENDS Integers, Sequences, FiniteSets, TLC

VARIABLES
    args,        \* os.Args[1:], the command line after the program name
    openable,    \* whether os.Open(fileName) succeeds
    data,        \* the bytes of the file named on the command line
    pc,          \* position of main: "start", "opened", "dispatch", "done", "getString"
    file,        \* the os.File: [pos: read offset, io: log of Seek / binary.Read calls]
    ehdr,        \* *Elf64Ehdr returned by ReadELFHeader (NilEhdr before / on error)
    phdrs,       \* the program headers decoded by the program-header loop
    shdrs,       \* MakeSectionHeaderWithName's shdrs (raw decoded section headers)
    stringTable, \* MakeSectionHeaderWithName's stringTable
    shdrwns,     \* the value MakeSectionHeaderWithName returned
    stdout,      \* what the run printed, as a sequence of rendered items
    stderr,      \* the error messages of the run
    exit,        \* process exit status: -1 running, 0, 1 (os.Exit(1)), 2 (panic)
    panic,       \* the run-time panic that ended the run, "" when none
    gs           \* getString applied on its own: [table, index, done, res]

vars == <<args, openable, data, pc, file, ehdr, phdrs, shdrs, stringTable,
          shdrwns, stdout, stderr, exit, panic, gs>>

-----------------------------------------------------------------------------
(* Bounds of the model *)

MaxPhnum == 2        \* program headers laid out in a generated file
MaxShnum == 2        \* section headers laid out in a generated file
MaxTableLen == 4     \* length of the string tables getString is applied to alone

(* Sizes of the fixed-layout records, binary.Size of the three structs *)
EhdrSize == 64
PhdrSize == 56
ShdrSize == 64

-----------------------------------------------------------------------------
(* Bytes and little-endian integers (binary.LittleEndian) *)

Zeros(n) == [i \in 1..n |-> 0]

RECURSIVE LittleEndian(_)
LittleEndian(bs) ==
    IF bs = <<>> THEN 0 ELSE Head(bs) + 256 * LittleEndian(Tail(bs))

RECURSIVE PutLittleEndian(_, _)
PutLittleEndian(n, v) ==
    IF n = 0 THEN <<>> ELSE <<v % 256>> \o PutLittleEndian(n - 1, v \div 256)

(* A uint64 is kept as its top bit and its low 63 bits: its value is       *)
(* b63 * 2^63 + low, and int64 of it is low - b63 * 2^63.                    *)
U64(v) == [b63 |-> 0, low |-> v]
U64High(v) == [b63 |-> 1, low |-> v]

Uint64(bs) ==
    [b63 |-> bs[8] \div 128,
     low |-> LittleEndian(SubSeq(bs, 1, 7) \o <<bs[8] % 128>>)]

PutUint64(u) ==
    LET b == PutLittleEndian(8, u.low)
    IN  SubSeq(b, 1, 7) \o <<b[8] + 128 * u.b63>>

(* int64(u) < 0, the conversion made at every file.Seek call *)
Int64Negative(u) == u.b63 = 1

-----------------------------------------------------------------------------
(* The three fixed-layout records, decoded field by field in declaration    *)
(* order as binary.Read does for a struct, little-endian, no padding.       *)

Field(bs, off, n) == SubSeq(bs, off + 1, off + n)

DecodeEhdr(bs) ==
    [nil       |-> FALSE,
     Ident     |-> Field(bs, 0, 16),
     Type      |-> LittleEndian(Field(bs, 16, 2)),
     Machine   |-> LittleEndian(Field(bs, 18, 2)),
     Version   |-> LittleEndian(Field(bs, 20, 4)),
     Entry     |-> Uint64(Field(bs, 24, 8)),
     Phoff     |-> Uint64(Field(bs, 32, 8)),
     Shoff     |-> Uint64(Field(bs, 40, 8)),
     Flags     |-> LittleEndian(Field(bs, 48, 4)),
     Ehsize    |-> LittleEndian(Field(bs, 52, 2)),
     Phentsize |-> LittleEndian(Field(bs, 54, 2)),
     Phnum     |-> LittleEndian(Field(bs, 56, 2)),
     Shentsize |-> LittleEndian(Field(bs, 58, 2)),
     Shnum     |-> LittleEndian(Field(bs, 60, 2)),
     Shstrndx  |-> LittleEndian(Field(bs, 62, 2))]

EncodeEhdr(h) ==
    h.Ident
    \o PutLittleEndian(2, h.Type) \o PutLittleEndian(2, h.Machine)
    \o PutLittleEndian(4, h.Version)
    \o PutUint64(h.Entry) \o PutUint64(h.Phoff) \o PutUint64(h.Shoff)
    \o PutLittleEndian(4, h.Flags)
    \o PutLittleEndian(2, h.Ehsize) \o PutLittleEndian(2, h.Phentsize)
    \o PutLittleEndian(2, h.Phnum) \o PutLittleEndian(2, h.Shentsize)
    \o PutLittleEndian(2, h.Shnum) \o PutLittleEndian(2, h.Shstrndx)

(* ehdr == nil *)
NilEhdr == [nil |-> TRUE]

DecodePhdr(bs) ==
    [Type   |-> LittleEndian(Field(bs, 0, 4)),
     Flags  |-> LittleEndian(Field(bs, 4, 4)),
     Offset |-> Uint64(Field(bs, 8, 8)),
     Vaddr  |-> Uint64(Field(bs, 16, 8)),
     Paddr  |-> Uint64(Field(bs, 24, 8)),
     Filesz |-> Uint64(Field(bs, 32, 8)),
     Memsz  |-> Uint64(Field(bs, 40, 8)),
     Align  |-> Uint64(Field(bs, 48, 8))]

EncodePhdr(p) ==
    PutLittleEndian(4, p.Type) \o PutLittleEndian(4, p.Flags)
    \o PutUint64(p.Offset) \o PutUint64(p.Vaddr) \o PutUint64(p.Paddr)
    \o PutUint64(p.Filesz) \o PutUint64(p.Memsz) \o PutUint64(p.Align)

(* var phdr Elf64Phdr: the zero value binary.Read leaves when it fails *)
ZeroPhdr == DecodePhdr(Zeros(PhdrSize))

DecodeShdr(bs) ==
    [Name      |-> LittleEndian(Field(bs, 0, 4)),
     Type      |-> LittleEndian(Field(bs, 4, 4)),
     Flags     |-> Uint64(Field(bs, 8, 8)),
     Addr      |-> Uint64(Field(bs, 16, 8)),
     Offset    |-> Uint64(Field(bs, 24, 8)),
     Size      |-> Uint64(Field(bs, 32, 8)),
     Link      |-> LittleEndian(Field(bs, 40, 4)),
     Info      |-> LittleEndian(Field(bs, 44, 4)),
     Addralign |-> Uint64(Field(bs, 48, 8)),
     Entsize   |-> Uint64(Field(bs, 56, 8))]

EncodeShdr(s) ==
    PutLittleEndian(4, s.Name) \o PutLittleEndian(4, s.Type)
    \o PutUint64(s.Flags) \o PutUint64(s.Addr)
    \o PutUint64(s.Offset) \o PutUint64(s.Size)
    \o PutLittleEndian(4, s.Link) \o PutLittleEndian(4, s.Info)
    \o PutUint64(s.Addralign) \o PutUint64(s.Entsize)

(* make([]Elf64Shdr, n): zero-valued elements *)
ZeroShdr == DecodeShdr(Zeros(ShdrSize))

-----------------------------------------------------------------------------
(* The os.File.  f is [pos, io]; the bytes are the variable data.           *)

(* Seek with the offset taken from the current position (whence 1) *)
SeekRelative(f, off) ==
    IF Int64Negative(off)
    THEN [pos |-> f.pos,
          io  |-> Append(f.io, [op |-> "Seek", off |-> off, ok |-> FALSE])]
    ELSE [pos |-> f.pos + off.low,
          io  |-> Append(f.io, [op |-> "Seek", off |-> off, ok |-> TRUE])]

(* file.Seek(int64(off), 0): a negative offset is refused (EINVAL) and the  *)
(* offset stays where it was; any other offset is taken, past the end of    *)
(* the file too.  The callers drop the error.                                *)
Seek(f, off) ==
    IF Int64Negative(off)
    THEN [pos |-> f.pos,
          io  |-> Append(f.io, [op |-> "Seek", off |-> off, ok |-> FALSE])]
    ELSE [pos |-> off.low,
          io  |-> Append(f.io, [op |-> "Seek", off |-> off, ok |-> TRUE])]

(* binary.Read(file, binary.LittleEndian, v) for a v of n bytes: io.ReadFull *)
(* of n bytes at the file's offset.  With fewer than n bytes left it fails   *)
(* (io.EOF / io.ErrUnexpectedEOF), having consumed what was left, and v is   *)
(* not written.                                                             *)
BinaryRead(f, n) ==
    LET avail == IF f.pos >= Len(data) THEN 0 ELSE Len(data) - f.pos
        ok    == n <= avail
    IN  [f     |-> [pos |-> IF ok THEN f.pos + n ELSE f.pos + avail,
                    io  |-> Append(f.io, [op |-> "Read", at |-> f.pos,
                                          n |-> n, ok |-> ok])],
         ok    |-> ok,
         bytes |-> IF ok THEN SubSeq(data, f.pos + 1, f.pos + n) ELSE <<>>]

-----------------------------------------------------------------------------
(* The string table *)

(* for end < uint32(len(data)) && data[end] != 0 { end++ }                   *)
(* (tables here are far shorter than 2^32 bytes, so uint32(len(data)) is    *)
(* len(data))                                                               *)
RECURSIVE ScanEnd(_, _)
ScanEnd(tbl, end) ==
    IF end < Len(tbl) /\ tbl[end + 1] # 0 THEN ScanEnd(tbl, end + 1) ELSE end

(* getString that does not stop at the NUL: string(data[index:]) *)
getStringToEnd(tbl, index) ==
    IF index > Len(tbl)
    THEN [panic |-> TRUE, str |-> <<>>]
    ELSE [panic |-> FALSE, str |-> SubSeq(tbl, index + 1, Len(tbl))]

(* getString: string(data[index:end]).  The slice expression panics (slice  *)
(* bounds out of range) when index is beyond cap(data), which is len(data)  *)
(* for the table dumpStringTable makes.  A string is its bytes.             *)
getString(tbl, index) ==
    LET end == ScanEnd(tbl, index)
    IN  IF index > Len(tbl)
        THEN [panic |-> TRUE, str |-> <<>>]
        ELSE [panic |-> FALSE, str |-> SubSeq(tbl, index + 1, end)]

(* dumpStringTable: Seek, make([]byte, size), binary.Read.  make panics     *)
(* (makeslice: len out of range) for a size of 2^63 or more.  A failed read *)
(* leaves the zero bytes make returned.                                     *)
dumpStringTable(f, offset, size) ==
    LET s == Seek(f, offset)
        r == BinaryRead(s, size.low)
    IN  IF Int64Negative(size)
        THEN [f |-> s, panic |-> "makeslice: len out of range", table |-> <<>>]
        ELSE [f |-> r.f, panic |-> "",
              table |-> IF r.ok THEN r.bytes ELSE Zeros(size.low)]

-----------------------------------------------------------------------------
(* The read loops *)

(* The loop putting each record in front of the ones read before it *)
RECURSIVE ReadPhdrsReversed(_, _)
ReadPhdrsReversed(f, n) ==
    IF n = 0 THEN [f |-> f, recs |-> <<>>]
    ELSE LET prev == ReadPhdrsReversed(f, n - 1)
             r    == BinaryRead(prev.f, PhdrSize)
         IN  [f    |-> r.f,
              recs |-> <<IF r.ok THEN DecodePhdr(r.bytes) ELSE ZeroPhdr>>
                       \o prev.recs]

(* for i := 0; i < int(ehdr.Phnum); i++ { var phdr; binary.Read(&phdr) }    *)
RECURSIVE ReadPhdrs(_, _)
ReadPhdrs(f, n) ==
    IF n = 0 THEN [f |-> f, recs |-> <<>>]
    ELSE LET prev == ReadPhdrs(f, n - 1)
             r    == BinaryRead(prev.f, PhdrSize)
         IN  [f    |-> r.f,
              recs |-> Append(prev.recs,
                              IF r.ok THEN DecodePhdr(r.bytes) ELSE ZeroPhdr)]

(* shdrs := make([]Elf64Shdr, n); for i ... { binary.Read(&shdrs[i]) }      *)
RECURSIVE ReadShdrs(_, _)
ReadShdrs(f, n) ==
    IF n = 0 THEN [f |-> f, recs |-> <<>>]
    ELSE LET prev == ReadShdrs(f, n - 1)
             r    == BinaryRead(prev.f, ShdrSize)
         IN  [f    |-> r.f,
              recs |-> Append(prev.recs,
                              IF r.ok THEN DecodeShdr(r.bytes) ELSE ZeroShdr)]

(* The fill loop with Link and Info crossed *)
WithNameCrossed(sh, name) ==
    [Name      |-> name,
     Type      |-> sh.Type,
     Flags     |-> sh.Flags,
     Addr      |-> sh.Addr,
     Offset    |-> sh.Offset,
     Size      |-> sh.Size,
     Link      |-> sh.Info,
     Info      |-> sh.Link,
     Addralign |-> sh.Addralign,
     Entsize   |-> sh.Entsize]

(* The body of the loop that fills shdrwns[i] from shdrs[i] *)
WithName(sh, name) ==
    [Name      |-> name,
     Type      |-> sh.Type,
     Flags     |-> sh.Flags,
     Addr      |-> sh.Addr,
     Offset    |-> sh.Offset,
     Size      |-> sh.Size,
     Link      |-> sh.Link,
     Info      |-> sh.Info,
     Addralign |-> sh.Addralign,
     Entsize   |-> sh.Entsize]

Line(text) == [kind |-> "line", text |-> text]

(* An index clamped into the slice instead of checked *)
IndexClamped(s, i) ==
    IF Len(s) = 0 THEN [panic |-> TRUE, v |-> ZeroShdr]
    ELSE [panic |-> FALSE, v |-> s[(IF i >= Len(s) THEN Len(s) - 1 ELSE i) + 1]]

(* shdrs[i] for a uint16 i: Go's bounds check panics (index out of range)   *)
(* unless i < len(shdrs).                                                   *)
Index(s, i) ==
    IF i >= Len(s) THEN [panic |-> TRUE, v |-> ZeroShdr]
    ELSE [panic |-> FALSE, v |-> s[i + 1]]

(* MakeSectionHeaderWithName.  returned is FALSE when a panic ended it.     *)
MakeSectionHeaderWithName(f, eh) ==
    LET s   == Seek(f, eh.Shoff)
        r   == ReadShdrs(s, eh.Shnum)
        raw == r.recs
        out == <<Line("Section Headers:")>>
        Panicked(g, msg, tbl) ==
            [f |-> g, out |-> out, returned |-> FALSE, panic |-> msg,
             shdrs |-> raw, stringTable |-> tbl, shdrwns |-> <<>>]
        str == Index(raw, eh.Shstrndx)
    IN  IF str.panic
        THEN Panicked(r.f, "index out of range", <<>>)
        ELSE LET t == dumpStringTable(r.f, str.v.Offset, str.v.Size)
             IN  IF t.panic # ""
                 THEN Panicked(t.f, t.panic, <<>>)
                 ELSE IF \E i \in 1..eh.Shnum :
                             getString(t.table, raw[i].Name).panic
                 THEN Panicked(t.f, "slice bounds out of range", t.table)
                 ELSE [f |-> t.f, out |-> out, returned |-> TRUE, panic |-> "",
                       shdrs |-> raw, stringTable |-> t.table,
                       shdrwns |-> [i \in 1..eh.Shnum |->
                           WithName(raw[i],
                                    getString(t.table, raw[i].Name).str)]]

-----------------------------------------------------------------------------
(* The files and command lines the runs start from *)

Options == {"-h", "-l", "-S", "-jh", "-jl", "-jS"}
ProgramOptions == {"-l", "-jl"}
SectionOptions == {"-S", "-jS"}

Ident == <<127, 69, 76, 70, 2, 1, 1>> \o Zeros(9)

(* The string tables laid out in the generated files *)
FileTables == {<<>>, <<97, 98>>, <<0, 97, 0, 98>>}

GenPhdr(i) ==
    [Type   |-> 1 + i,      Flags  |-> 4 + i,
     Offset |-> U64(16 * i), Vaddr  |-> U64(4096 + i), Paddr |-> U64(8192 + i),
     Filesz |-> U64(10 + i), Memsz  |-> U64(20 + i),   Align |-> U64(4096)]

(* Section j names the bytes of the string area from its j-th byte on *)
(* (kind "offHigh" / "sizeHigh": with bit 63 of Offset / Size set)           *)
GenShdr(j, name, strOff, strLen, kind) ==
    [Name   |-> name,            Type   |-> 1 + j,
     Flags  |-> U64(2 + j),      Addr   |-> U64(100 + j),
     Offset |-> IF kind = "offHigh" THEN U64High(strOff + j)
                ELSE U64(strOff + j),
     Size   |-> IF kind = "sizeHigh" THEN U64High(strLen)
                ELSE U64(IF strLen > j THEN strLen - j ELSE 0),
     Link   |-> 7 + j,           Info   |-> 9 + j,
     Addralign |-> U64(1),       Entsize |-> U64(24 + j)]

RECURSIVE Concat(_)
Concat(ss) == IF ss = <<>> THEN <<>> ELSE Head(ss) \o Concat(Tail(ss))

(* A file with nph program headers at 64, then nsh section headers, then   *)
(* the string table; phHigh / shHigh set bit 63 of Phoff / Shoff.          *)
PhEnd(nph) == EhdrSize + PhdrSize * nph
ShEnd(nph, nsh) == PhEnd(nph) + ShdrSize * nsh

GenFile(nph, nsh, strndx, phHigh, shHigh, tbl, nameBase, kind) ==
    LET h == [Ident |-> Ident, Type |-> 2, Machine |-> 62, Version |-> 1,
              Entry |-> U64(4198400),
              Phoff |-> IF phHigh THEN U64High(EhdrSize) ELSE U64(EhdrSize),
              Shoff |-> IF shHigh THEN U64High(PhEnd(nph)) ELSE U64(PhEnd(nph)),
              Flags |-> 0, Ehsize |-> EhdrSize, Phentsize |-> PhdrSize,
              Phnum |-> nph, Shentsize |-> ShdrSize, Shnum |-> nsh,
              Shstrndx |-> strndx]
    IN  EncodeEhdr(h)
        \o Concat([i \in 1..nph |-> EncodePhdr(GenPhdr(i - 1))])
        \o Concat([j \in 1..nsh |->
              EncodeShdr(GenShdr(j - 1, nameBase + j - 1,
                                 ShEnd(nph, nsh), Len(tbl), kind))])
        \o tbl

(* Where a generated file is cut short *)
Cuts(nph, nsh, full) ==
    {c \in {0, EhdrSize - 1, PhEnd(nph) - PhdrSize - 1, PhEnd(nph) - 1,
            ShEnd(nph, nsh) - 1, full - 1, full} : c >= 0 /\ c <= full}

Truncated(bytes, c) == SubSeq(bytes, 1, c)

ProgramFiles ==
    UNION {LET full == GenFile(nph, nsh, 0, phHigh, FALSE, <<97, 98>>, 0, "plain")
           IN  {Truncated(full, c) : c \in Cuts(nph, nsh, Len(full))} :
           nph \in 0..MaxPhnum, nsh \in 0..1, phHigh \in BOOLEAN}

SectionFiles ==
    UNION {LET full == GenFile(l.nph, nsh, strndx, FALSE, l.shHigh, tbl,
                               nameBase, l.kind)
           IN  {Truncated(full, c) : c \in Cuts(l.nph, nsh, Len(full))} :
           l \in {[nph |-> 0, shHigh |-> FALSE, kind |-> "plain"],
                  [nph |-> 1, shHigh |-> FALSE, kind |-> "plain"],
                  [nph |-> 0, shHigh |-> TRUE,  kind |-> "plain"],
                  [nph |-> 1, shHigh |-> FALSE, kind |-> "offHigh"],
                  [nph |-> 1, shHigh |-> FALSE, kind |-> "sizeHigh"]},
           nsh \in 0..MaxShnum, strndx \in 0..MaxShnum,
           tbl \in FileTables, nameBase \in 0..3}

HeaderFiles ==
    {Truncated(GenFile(1, 1, 0, FALSE, FALSE, <<0, 97, 0>>, 1, "plain"), c) :
        c \in {0, EhdrSize - 1, EhdrSize, PhEnd(1)}}

NoGs == [table |-> <<>>, index |-> 0, done |-> FALSE,
         res |-> [panic |-> FALSE, str |-> <<>>]]

Init ==
    /\ \/ /\ args \in {<<>>, <<"-h">>}          \* len(os.Args) != 3
          /\ openable = TRUE /\ data = <<>>
       \/ /\ args = <<"-h", "missing">> /\ openable = FALSE /\ data = <<>>
       \/ /\ \E o \in {"-h", "-jh", "-x"} : args = <<o, "a.out">>
          /\ openable = TRUE /\ data \in HeaderFiles
       \/ /\ \E o \in ProgramOptions : args = <<o, "a.out">>
          /\ openable = TRUE /\ data \in ProgramFiles
       \/ /\ \E o \in SectionOptions : args = <<o, "a.out">>
          /\ openable = TRUE /\ data \in SectionFiles
    /\ pc = "start"
    /\ file = [pos |-> 0, io |-> <<>>]
    /\ ehdr = NilEhdr
    /\ phdrs = <<>> /\ shdrs = <<>> /\ stringTable = <<>> /\ shdrwns = <<>>
    /\ stdout = <<>> /\ stderr = <<>>
    /\ exit = -1 /\ panic = ""
    /\ gs = NoGs

-----------------------------------------------------------------------------
(* main *)

Exit(status, out, err) ==
    /\ pc' = "done"
    /\ exit' = status
    /\ stdout' = stdout \o out
    /\ stderr' = stderr \o err

(* if len(os.Args) != 3 { usage; os.Exit(1) } *)
Usage ==
    /\ pc = "start" /\ Len(args) # 2
    /\ Exit(1, <<>>, <<"Usage">>)
    /\ UNCHANGED <<args, openable, data, file, ehdr, phdrs, shdrs,
                   stringTable, shdrwns, panic, gs>>

(* file, err := os.Open(fileName) *)
Open ==
    /\ pc = "start" /\ Len(args) = 2
    /\ IF openable
       THEN /\ pc' = "opened"
            /\ UNCHANGED <<exit, stdout, stderr>>
       ELSE Exit(1, <<>>, <<"Error opening file">>)
    /\ UNCHANGED <<args, openable, data, file, ehdr, phdrs, shdrs,
                   stringTable, shdrwns, panic, gs>>

(* main dropping ReadELFHeader's error, as the table readers drop theirs:   *)
(* the header is then the zero value new(Elf64Ehdr) made.                   *)
ReadELFHeaderUnchecked ==
    /\ pc = "opened"
    /\ LET r == BinaryRead(file, EhdrSize)
       IN  /\ file' = r.f
           /\ ehdr' = DecodeEhdr(IF r.ok THEN r.bytes ELSE Zeros(EhdrSize))
           /\ pc' = "dispatch"
           /\ UNCHANGED <<exit, stdout, stderr>>
    /\ UNCHANGED <<args, openable, data, phdrs, shdrs, stringTable,
                   shdrwns, panic, gs>>

(* ehdr, err := ReadELFHeader(file); if err != nil { ...; os.Exit(1) } *)
ReadELFHeader ==
    /\ pc = "opened"
    /\ LET r == BinaryRead(file, EhdrSize)
       IN  /\ file' = r.f
           /\ IF r.ok
              THEN /\ ehdr' = DecodeEhdr(r.bytes)
                   /\ pc' = "dispatch"
                   /\ UNCHANGED <<exit, stdout, stderr>>
              ELSE /\ ehdr' = NilEhdr
                   /\ Exit(1, <<>>, <<"Error reading ELF header">>)
    /\ UNCHANGED <<args, openable, data, phdrs, shdrs, stringTable,
                   shdrwns, panic, gs>>

Dispatch(option) == pc = "dispatch" /\ args[1] = option

PrintELFHeader ==
    /\ Dispatch("-h")
    /\ Exit(0, <<Line("This image displays information about a machine and "
                       \o "operating system:"),
                  [kind |-> "ehdr", v |-> ehdr]>>, <<>>)
    /\ UNCHANGED <<args, openable, data, file, ehdr, phdrs, shdrs,
                   stringTable, shdrwns, panic, gs>>

JSONOutputELFHeader ==
    /\ Dispatch("-jh")
    /\ Exit(0, <<[kind |-> "json", v |-> <<ehdr>>]>>, <<>>)
    /\ UNCHANGED <<args, openable, data, file, ehdr, phdrs, shdrs,
                   stringTable, shdrwns, panic, gs>>

(* Each record is rendered right after the binary.Read that filled it *)
PrintProgramHeaders ==
    /\ Dispatch("-l")
    /\ LET r == ReadPhdrs(Seek(file, ehdr.Phoff), ehdr.Phnum)
       IN  /\ file' = r.f
           /\ phdrs' = r.recs
           /\ Exit(0, <<Line("Program Headers:")>>
                      \o [i \in 1..Len(r.recs) |->
                             [kind |-> "phdr", v |-> r.recs[i]]], <<>>)
    /\ UNCHANGED <<args, openable, data, ehdr, shdrs, stringTable,
                   shdrwns, panic, gs>>

JSONOutputProgramHeaders ==
    /\ Dispatch("-jl")
    /\ LET r == ReadPhdrs(Seek(file, ehdr.Phoff), ehdr.Phnum)
       IN  /\ file' = r.f
           /\ phdrs' = r.recs
           /\ Exit(0, <<[kind |-> "json", v |-> r.recs]>>, <<>>)
    /\ UNCHANGED <<args, openable, data, ehdr, shdrs, stringTable,
                   shdrwns, panic, gs>>

(* A run-time panic in MakeSectionHeaderWithName ends the run with status 2 *)
SectionRun(m, rendered) ==
    /\ file' = m.f
    /\ shdrs' = m.shdrs
    /\ stringTable' = m.stringTable
    /\ shdrwns' = m.shdrwns
    /\ panic' = m.panic
    /\ IF m.returned
       THEN Exit(0, m.out \o rendered, <<>>)
       ELSE Exit(2, m.out, <<"panic: runtime error: " \o m.panic>>)
    /\ UNCHANGED <<args, openable, data, ehdr, phdrs, gs>>

PrintSectionHeaders ==
    /\ Dispatch("-S")
    /\ LET m == MakeSectionHeaderWithName(file, ehdr)
       IN  SectionRun(m, [i \in 1..ehdr.Shnum |->
                             [kind |-> "shdr", v |-> m.shdrwns[i]]])

JSONOutputSectionHeaders ==
    /\ Dispatch("-jS")
    /\ LET m == MakeSectionHeaderWithName(file, ehdr)
       IN  SectionRun(m, <<[kind |-> "json", v |-> m.shdrwns]>>)

(* default: *)
InvalidOption ==
    /\ pc = "dispatch" /\ args[1] \notin Options
    /\ Exit(1, <<>>, <<"Invalid option">>)
    /\ UNCHANGED <<args, openable, data, file, ehdr, phdrs, shdrs,
                   stringTable, shdrwns, panic, gs>>

Next ==
    \/ Usage
    \/ Open
    \/ ReadELFHeader
    \/ PrintELFHeader
    \/ JSONOutputELFHeader
    \/ PrintProgramHeaders
    \/ JSONOutputProgramHeaders
    \/ PrintSectionHeaders
    \/ JSONOutputSectionHeaders
    \/ InvalidOption

Spec == Init /\ [][Next]_vars

-----------------------------------------------------------------------------
(* getString on its own: every table over a three-byte alphabet up to       *)
(* MaxTableLen bytes, and the table "ab\0cd\0", at every index up to two    *)
(* past the end.                                                            *)

ExampleTable == <<97, 98, 0, 99, 100, 0>>

Tables ==
    UNION {[1..n -> {0, 97, 98}] : n \in 0..MaxTableLen} \cup {ExampleTable}

InitGetString ==
    /\ args = <<>> /\ openable = FALSE /\ data = <<>>
    /\ pc = "getString"
    /\ file = [pos |-> 0, io |-> <<>>]
    /\ ehdr = NilEhdr
    /\ phdrs = <<>> /\ shdrs = <<>> /\ stringTable = <<>> /\ shdrwns = <<>>
    /\ stdout = <<>> /\ stderr = <<>>
    /\ exit = -1 /\ panic = ""
    /\ \E t \in Tables : \E i \in 0..(Len(t) + 2) :
          gs = [table |-> t, index |-> i, done |-> FALSE,
                res |-> [panic |-> FALSE, str |-> <<>>]]

CallGetString ==
    /\ pc = "getString" /\ ~gs.done
    /\ gs' = [gs EXCEPT !.done = TRUE, !.res = getString(gs.table, gs.index)]
    /\ UNCHANGED <<args, openable, data, pc, file, ehdr, phdrs, shdrs,
                   stringTable, shdrwns, stdout, stderr, exit, panic>>

SpecGetString == InitGetString /\ [][CallGetString]_vars

-----------------------------------------------------------------------------
(* What the properties below speak of *)

Option == IF Len(args) = 2 THEN args[1] ELSE ""

(* The handler of a program-header / section-header option has run *)
ProgramRan == pc = "done" /\ Option \in ProgramOptions /\ ~ehdr.nil
SectionRan == pc = "done" /\ Option \in SectionOptions /\ ~ehdr.nil

(* The calls made on the file after ReadELFHeader's read *)
TableIo == SubSeq(file.io, 2, Len(file.io))

Seeks == {k \in 1..Len(file.io) : file.io[k].op = "Seek"}
Reads == {k \in 1..Len(file.io) : file.io[k].op = "Read"}

(* The decoded records that reached the output, in output order *)
RECURSIVE RenderedOf(_)
RenderedOf(out) ==
    IF out = <<>> THEN <<>>
    ELSE LET item == Head(out)
         IN  (IF item.kind \in {"phdr", "shdr"} THEN <<item.v>>
              ELSE IF item.kind = "json" THEN item.v
              ELSE <<>>) \o RenderedOf(Tail(out))

Rendered == RenderedOf(stdout)

(* The bytes of the file at an absolute offset, when the file holds them *)
Holds(off, n) == off + n <= Len(data)
BytesAt(off, n) == SubSeq(data, off + 1, off + n)

-----------------------------------------------------------------------------
(* C1: whenever the header's Shstrndx is not below its Shnum, the section   *)
(* path (PrintSectionHeaders / JSONOutputSectionHeaders through             *)
(* MakeSectionHeaderWithName) ends in the invalid-string-table-index        *)
(* failure, which in this program is the run-time error "index out of      *)
(* range" raised by shdrs[ehdr.Shstrndx]; it has then made no call to load  *)
(* a string table (the only calls on the file are the Seek to Shoff and the *)
(* Shnum section-header reads) and no resolved section header was returned  *)
(* or rendered.                                                             *)
C1_InvalidStringTableIndex ==
    (SectionRan /\ ehdr.Shstrndx >= ehdr.Shnum) =>
        /\ panic = "index out of range"
        /\ exit = 2
        /\ Len(TableIo) = 1 + ehdr.Shnum
        /\ Seeks = {2}
        /\ stringTable = <<>>
        /\ shdrwns = <<>>
        /\ Rendered = <<>>

C1_Witness ==
    /\ SectionRan
    /\ ehdr.Shnum > 0
    /\ ehdr.Shstrndx >= ehdr.Shnum
    /\ Len(shdrs) = ehdr.Shnum
    /\ panic = "index out of range"

(* C4: with Shnum = 0 the section headers decode to the empty sequence and  *)
(* MakeSectionHeaderWithName returns an empty sequence of resolved headers, *)
(* without seeking to or reading a string table and without failing.        *)
C4_NoSectionsIsEmptyNotFailure ==
    (SectionRan /\ ehdr.Shnum = 0) =>
        /\ shdrs = <<>>
        /\ shdrwns = <<>>
        /\ Seeks = {2}
        /\ exit = 0
        /\ panic = ""


(* C2: when the file ends before Phoff + Phnum * 56, the program-header     *)
(* decode fails (TruncatedInput) and no program-header record is returned   *)
(* or rendered: not the ones read in full, not zero-filled ones.            *)
C2_TruncatedProgramHeadersFail ==
    (/\ ProgramRan
     /\ ~Int64Negative(ehdr.Phoff)
     /\ ~Holds(ehdr.Phoff.low, ehdr.Phnum * PhdrSize)) =>
        /\ exit # 0
        /\ stderr # <<>>
        /\ Rendered = <<>>

(* C7: when the file holds Phnum full program-header records from Phoff on, *)
(* the decode yields exactly Phnum records, the i-th decoded from the 56    *)
(* bytes at Phoff + i * 56, in table order, and there is no error; with     *)
(* Phnum = 0 it yields the empty sequence and no error.                     *)
C7_ProgramHeadersDecoded ==
    (/\ ProgramRan
     /\ \/ ehdr.Phnum = 0
        \/ /\ ~Int64Negative(ehdr.Phoff)
           /\ Holds(ehdr.Phoff.low, ehdr.Phnum * PhdrSize)) =>
        /\ exit = 0 /\ stderr = <<>> /\ panic = ""
        /\ Len(phdrs) = ehdr.Phnum
        /\ Rendered = phdrs
        /\ \A i \in 1..ehdr.Phnum :
              phdrs[i] = DecodePhdr(BytesAt(ehdr.Phoff.low + (i - 1) * PhdrSize,
                                            PhdrSize))

C7_Witness ==
    /\ ProgramRan
    /\ ehdr.Phnum >= 2
    /\ ~Int64Negative(ehdr.Phoff)
    /\ Holds(ehdr.Phoff.low, ehdr.Phnum * PhdrSize)
    /\ Len(Rendered) = ehdr.Phnum
    /\ Rendered[1] # Rendered[2]
    /\ Rendered[2].Type = 2

(* C8: when the Seek to a declared offset (Phoff, Shoff) fails, the decode  *)
(* fails (SeekFailure) and reads no record: no read follows the failed Seek *)
(* and nothing decoded is rendered.                                         *)
C8_SeekFailureStopsDecode ==
    (/\ ProgramRan \/ SectionRan
     /\ ~file.io[2].ok) =>
        /\ exit # 0
        /\ stderr # <<>>
        /\ Reads = {1}
        /\ Rendered = <<>>

(* C9: when the file holds fewer than 64 bytes, ReadELFHeader returns an    *)
(* error and no header and main stops at once, whatever the option: it      *)
(* exits with status 1 having made no Seek, no read but the header's, no    *)
(* decode, no string-table load and no rendering.                           *)
C9_ShortHeaderFailsFast ==
    (Len(args) = 2 /\ openable /\ Len(data) < EhdrSize) =>
        /\ pc \in {"start", "opened", "done"}
        /\ ehdr = NilEhdr
        /\ Seeks = {}
        /\ Reads \subseteq {1}
        /\ phdrs = <<>> /\ shdrs = <<>> /\ stringTable = <<>> /\ shdrwns = <<>>
        /\ stdout = <<>>
        /\ pc = "done" =>
              /\ exit = 1
              /\ stderr = <<"Error reading ELF header">>
              /\ Len(file.io) = 1 /\ ~file.io[1].ok

C9_Witness ==
    /\ pc = "done"
    /\ Option \in SectionOptions
    /\ Len(data) > 0 /\ Len(data) < EhdrSize
    /\ exit = 1
    /\ Len(file.io) = 1


(* The name at index in a table, stated without the scan: the bytes from    *)
(* index up to the first NUL at or after it, or up to the table's end.      *)
NameEnd(tbl, index) ==
    LET nuls == {k \in index..(Len(tbl) - 1) : tbl[k + 1] = 0}
    IN  IF nuls = {} THEN Len(tbl)
        ELSE CHOOSE k \in nuls : \A j \in nuls : k <= j

NameAt(tbl, index) ==
    [k \in 1..(NameEnd(tbl, index) - index) |-> tbl[index + k]]

(* C3: for every table and every index at or beyond the table's length      *)
(* (beyond it too, and any index of the empty table) getString returns the  *)
(* empty string and does not fail.                                          *)
C3_OutOfRangeIndexIsEmptyName ==
    (gs.done /\ gs.index >= Len(gs.table)) =>
        /\ ~gs.res.panic
        /\ gs.res.str = <<>>

(* C5: for every table and every index below the table's length getString  *)
(* returns exactly table[index .. e-1], e the position of the first NUL at  *)
(* or after index, or the table's length when none follows; so the empty    *)
(* string when table[index] is NUL, and for "ab\0cd\0" the name "ab" at 0   *)
(* and "cd" at 3.                                                           *)
C5_NameRunsToNulOrEnd ==
    (gs.done /\ gs.index < Len(gs.table)) =>
        /\ ~gs.res.panic
        /\ gs.res.str = NameAt(gs.table, gs.index)
        /\ gs.table[gs.index + 1] = 0 => gs.res.str = <<>>
        /\ (gs.table = ExampleTable /\ gs.index = 0) => gs.res.str = <<97, 98>>
        /\ (gs.table = ExampleTable /\ gs.index = 3) => gs.res.str = <<99, 100>>

C5_Witness ==
    /\ gs.done
    /\ gs.table = ExampleTable
    /\ gs.index = 3
    /\ gs.res.str = <<99, 100>>

(* C6: when MakeSectionHeaderWithName returns, on a header with N = Shnum   *)
(* sections, it returns exactly N resolved headers in section-header-table  *)
(* order: the i-th has the type, flags, address, offset, size, link, info,  *)
(* address alignment and entry size of the i-th raw decoded header, and its *)
(* name is the name at the i-th raw header's name index in the string table *)
(* loaded with the offset and size of the section at index Shstrndx (the    *)
(* file's bytes at that offset when the table's Seek and read succeed).     *)
SameFields(w, sh) ==
    /\ w.Type = sh.Type /\ w.Flags = sh.Flags /\ w.Addr = sh.Addr
    /\ w.Offset = sh.Offset /\ w.Size = sh.Size /\ w.Link = sh.Link
    /\ w.Info = sh.Info /\ w.Addralign = sh.Addralign
    /\ w.Entsize = sh.Entsize

(* the section at index Shstrndx, and the calls that loaded its table *)
StrSection == shdrs[ehdr.Shstrndx + 1]
StrSeek == TableIo[2 + ehdr.Shnum]
StrRead == TableIo[3 + ehdr.Shnum]

C6_BindingPreservesOrderAndFields ==
    (SectionRan /\ exit = 0) =>
        /\ Len(shdrs) = ehdr.Shnum
        /\ Len(shdrwns) = ehdr.Shnum
        /\ Rendered = shdrwns
        /\ \A i \in 1..ehdr.Shnum :
              /\ SameFields(shdrwns[i], shdrs[i])
              /\ shdrwns[i].Name = NameAt(stringTable, shdrs[i].Name)
        /\ (TableIo[1].ok /\ Holds(ehdr.Shoff.low, ehdr.Shnum * ShdrSize)) =>
              \A i \in 1..ehdr.Shnum :
                 shdrs[i] = DecodeShdr(BytesAt(ehdr.Shoff.low + (i - 1) * ShdrSize,
                                               ShdrSize))
        /\ StrSeek.off = StrSection.Offset
        /\ StrRead.n = StrSection.Size.low
        /\ (StrSeek.ok /\ StrRead.ok) =>
              stringTable = BytesAt(StrSection.Offset.low, StrSection.Size.low)

C6_Witness ==
    /\ SectionRan /\ exit = 0
    /\ ehdr.Shnum >= 2
    /\ ehdr.Shstrndx = 1
    /\ StrSeek.ok /\ StrRead.ok
    /\ Len(Rendered) = ehdr.Shnum
    /\ Rendered[1].Name # <<>>
    /\ Rendered[1].Name # Rendered[2].Name
    /\ Rendered[1].Type # Rendered[2].Type


(* What a table read gives as a function of the file's bytes and the        *)
(* absolute offset alone: the record or bytes there, or the zero value      *)
(* where the file does not hold them in full.                               *)
PhdrAt(off) ==
    IF Holds(off, PhdrSize) THEN DecodePhdr(BytesAt(off, PhdrSize)) ELSE ZeroPhdr
ShdrAt(off) ==
    IF Holds(off, ShdrSize) THEN DecodeShdr(BytesAt(off, ShdrSize)) ELSE ZeroShdr
TableAt(off, n) ==
    IF Holds(off, n) THEN BytesAt(off, n) ELSE Zeros(n)

IsSeek(c, off) == c.op = "Seek" /\ c.off = off
IsRead(c, n) == c.op = "Read" /\ c.n = n

(* C10: every decode step after the file header seeks to its own declared   *)
(* absolute offset before its first read, so that whenever that Seek        *)
(* succeeds what the step returns is a function of the file's bytes and the *)
(* header fields, whatever offset the earlier step left; and the calls of   *)
(* the section path come in the order Seek(Shoff), Shnum section-header     *)
(* reads, Seek(string-table offset), string-table read, with the names      *)
(* resolved only after all of them (a run ended by a panic has made a       *)
(* prefix of these calls).                                                  *)
C10_EachStepSeeksFirst ==
    /\ ProgramRan =>
          /\ Len(TableIo) = 1 + ehdr.Phnum
          /\ IsSeek(TableIo[1], ehdr.Phoff)
          /\ \A k \in 2..Len(TableIo) : IsRead(TableIo[k], PhdrSize)
          /\ TableIo[1].ok =>
                \A i \in 1..ehdr.Phnum :
                   phdrs[i] = PhdrAt(ehdr.Phoff.low + (i - 1) * PhdrSize)
    /\ SectionRan =>
          /\ Len(TableIo) \in (1 + ehdr.Shnum)..(3 + ehdr.Shnum)
          /\ IsSeek(TableIo[1], ehdr.Shoff)
          /\ \A k \in 2..(1 + ehdr.Shnum) : IsRead(TableIo[k], ShdrSize)
          /\ TableIo[1].ok =>
                \A i \in 1..ehdr.Shnum :
                   shdrs[i] = ShdrAt(ehdr.Shoff.low + (i - 1) * ShdrSize)
          /\ Len(TableIo) >= 2 + ehdr.Shnum =>
                IsSeek(StrSeek, StrSection.Offset)
          /\ Len(TableIo) = 3 + ehdr.Shnum =>
                /\ IsRead(StrRead, StrSection.Size.low)
                /\ StrSeek.ok =>
                      stringTable = TableAt(StrSection.Offset.low,
                                            StrSection.Size.low)
          /\ (exit = 0 \/ shdrwns # <<>> \/ Rendered # <<>>) =>
                Len(TableIo) = 3 + ehdr.Shnum

(* A section path run whose Seeks succeeded from offsets other than the     *)
(* ones sought: the headers are not at 64 and the table not where the       *)
(* header reads ended.                                                      *)
C10_Witness ==
    /\ SectionRan /\ exit = 0
    /\ ehdr.Shnum >= 2
    /\ TableIo[1].ok /\ ehdr.Shoff.low # EhdrSize
    /\ StrSeek.ok /\ StrRead.ok
    /\ StrSection.Offset.low # TableIo[1 + ehdr.Shnum].at + ShdrSize
    /\ stringTable # <<>>

=============================================================================
